---- MODULE Spec2Model ----
(***************************************************************************)
(* pympipool: the task-queue dispatcher execute_tasks                      *)
(* (pympipool/share/serial.py), the cancel sweep cancel_items_in_queue,    *)
(* and the collaborators they talk to: the thread-safe FIFO queue, the     *)
(* concurrent.futures.Future state machine, the socket interface with its  *)
(* worker process, and the clients (submit, cancel, map, shutdown); the    *)
(* dependency resolver in front of the pool; and the factory               *)
(* Executor.__new__ (pympipool/__init__.py) that selects the backend.      *)
(***************************************************************************)
EXTENDS Integers, Sequences, FiniteSets, TLC

\* ---------------------------------------------------------------- bounds
MaxTasks == 3       \* futures created in one run (submit + map)
MaxMapLen == 2      \* items of one map() call, each in 1..MaxMapLen

\* ShellExecutor(max_workers=2): the loops that consume the shared queue
NumSlots == 2

Slots == 1..NumSlots

VARIABLES
    queue,        \* future_queue: the entries put and not yet got
    futures,      \* futures[t]: the Future of the t-th submission
    pc,           \* pc[s]: where the loop of slot s stands
    task_dict,    \* task_dict[s]: the entry slot s dequeued last
    f,            \* f[s]: the future popped from task_dict[s] (0: none)
    exc,          \* exc[s]: the exception that left execute_tasks ("" : none)
    req,          \* req[s]: messages sent to the worker of slot s, unread
    resp,         \* resp[s]: responses of the worker of slot s, unread
    alive,        \* alive[s]: the worker process of slot s runs
    memory,       \* memory[s]: keyword values the worker got from init
    sent,         \* sent[s]: futures whose call slot s sent, in order
    lateCancel,   \* futures the client called cancel() on while running
    closeQueued,  \* shutdown has put the close messages
    sweepPc,      \* position of cancel_items_in_queue: "idle" or "loop"
    mapPc,        \* position of the map() call and its result iterator
    mapItems,     \* the items map() was called with
    mapFs,        \* the futures map() submitted, in input order
    mapOut,       \* the results the map iterator has yielded
    mapDone,      \* the futures of map() in the order they got their result
    deps,         \* deps[t]: the futures task t got as arguments (0: a value)
    count,        \* count[t]: dependencies of task t still unresolved
    notified,     \* <<t, i>>: the callback for argument i of task t has run
    submitError,  \* the error the last submit raised ("": none)
    call,         \* the arguments of the last call Executor(...)
    made,         \* what that call returned or raised
    initSeen,     \* initSeen[s]: the loop of slot s has handled an init entry
    lock,         \* the callback that holds the resolver's lock (<<>>: free)
    reading       \* reading[<<t, i>>]: the count that callback has read

vars == <<queue, futures, pc, task_dict, f, exc, req, resp, alive, memory,
          sent, lateCancel, closeQueued, sweepPc,
          mapPc, mapItems, mapFs, mapOut, mapDone,
          deps, count, notified, submitError, call, made, initSeen,
          lock, reading>>

dispVars == <<pc, task_dict, f, exc>>
chanVars == <<req, resp, alive, memory>>
sweepVars == <<sweepPc>>
mapVars == <<mapPc, mapItems, mapFs, mapOut, mapDone>>
depVars == <<deps, count, notified>>
factoryVars == <<call, made>>
lockVars == <<lock, reading>>

\* ------------------------------------------------ concurrent.futures.Future
CancelledStates == {"CANCELLED", "CANCELLED_AND_NOTIFIED"}
TerminalStates == CancelledStates \cup {"FINISHED"}

\* Future(): pending, no result
NewFuture == [state |-> "PENDING", result |-> <<>>, exception |-> ""]

\* cancel() without the test for a running future
cancel_running(fut) ==
    IF fut.state \in {"PENDING", "RUNNING"}
    THEN [fut EXCEPT !.state = "CANCELLED"] ELSE fut

\* the future after Future.cancel(): only a pending future changes; on a
\* running or finished one cancel() returns False
cancel(fut) ==
    IF fut.state = "PENDING" THEN [fut EXCEPT !.state = "CANCELLED"] ELSE fut

\* the return value of Future.set_running_or_notify_cancel():
\* "raise" stands for its RuntimeError on a future in an unexpected state
set_running_returns(fut) ==
    CASE fut.state = "CANCELLED" -> "false"
      [] fut.state = "PENDING" -> "true"
      [] OTHER -> "raise"

\* marking the future running whatever its state (set_running)
set_running_always(fut) == [fut EXCEPT !.state = "RUNNING"]

\* the future after Future.set_running_or_notify_cancel()
set_running_or_notify_cancel(fut) ==
    CASE fut.state = "CANCELLED" -> [fut EXCEPT !.state = "CANCELLED_AND_NOTIFIED"]
      [] fut.state = "PENDING" -> [fut EXCEPT !.state = "RUNNING"]
      [] OTHER -> fut

\* Future.set_result(v) raises InvalidStateError on a terminal future
set_result_raises(fut) == fut.state \in TerminalStates

\* set_result that finishes the future and drops the value (set_result(None))
set_result_drops_value(fut, v) ==
    IF set_result_raises(fut) THEN fut
    ELSE [fut EXCEPT !.state = "FINISHED", !.result = <<0>>]

\* the future after Future.set_result(v)
set_result(fut, v) ==
    IF set_result_raises(fut) THEN fut
    ELSE [fut EXCEPT !.state = "FINISHED", !.result = <<v>>]

\* ------------------------------------------------------------ queue entries
\* {"f": calc, "a": (), "k": kw, "l": future}; kw is a set of <<name, value>>
TaskEntry(kw, t) == [f |-> "calc", a |-> <<>>, k |-> kw, l |-> t]
\* {"f": add_function, "a": (p1,), "k": {"parameter_2": p2}, "l": future}
AddEntry(p1, p2, t) ==
    [f |-> "add_function", a |-> <<p1>>, k |-> {<<"parameter_2", p2>>}, l |-> t]
\* p.submit(calc, 2, j=4) of the class docstring, where calc is calc(i, j, k)
ExampleEntry(t) == [f |-> "calc_ijk", a |-> <<2>>, k |-> {<<"j", 4>>}, l |-> t]
\* {"c": "close"}
CloseEntry == [c |-> "close"]
\* {"f": init_function, "i": True}
InitEntry == [f |-> "init_k", i |-> TRUE]
\* no entry held
NoEntry == [none |-> TRUE]

\* the keyword dictionaries a client calls calc with: {} and {"i": v}
KwChoices == {{}, {<<"i", 2>>}}

\* entries of n close messages, one for each slot
RECURSIVE Closes(_)
Closes(n) == IF n = 0 THEN <<>> ELSE <<CloseEntry>> \o Closes(n - 1)

\* entries of n init messages, one for each slot
RECURSIVE Inits(_)
Inits(n) == IF n = 0 THEN <<>> ELSE <<InitEntry>> \o Inits(n - 1)

\* ------------------------------------------------------------------- worker
\* calc(i): i ** 2; any other keyword set is a TypeError
calc_raises(kw) == {p[1] : p \in kw} # {"i"} \/ Cardinality(kw) # 1

calc(kw) == LET p == CHOOSE q \in kw : q[1] = "i" IN p[2] * p[2]

\* add_function(parameter_1, parameter_2): any other argument list is a
\* TypeError
add_function_raises(a, kw) ==
    Len(a) # 1 \/ {p[1] : p \in kw} # {"parameter_2"} \/ Cardinality(kw) # 1

\* add_function: parameter_1 + parameter_2
add_function(a, kw) ==
    LET p == CHOOSE q \in kw : q[1] = "parameter_2" IN a[1] + p[2]

\* calc(i, j, k) of the class docstring: any other argument list is a
\* TypeError
calc_ijk_raises(a, kw) ==
    Len(a) # 1 \/ {p[1] : p \in kw} # {"j", "k"} \/ Cardinality(kw) # 2

\* calc(i, j, k) of the class docstring: np.array([i, j, k])
calc_ijk(a, kw) ==
    LET v(n) == (CHOOSE q \in kw : q[1] = n)[2] IN <<a[1], v("j"), v("k")>>

\* the call m["f"](*m["a"], **kw) raises
CallRaises(m, kw) ==
    CASE m.f = "add_function" -> add_function_raises(m.a, kw)
      [] m.f = "calc_ijk" -> calc_ijk_raises(m.a, kw)
      [] OTHER -> calc_raises(kw)

\* the value of the call m["f"](*m["a"], **kw)
CallValue(m, kw) ==
    CASE m.f = "add_function" -> add_function(m.a, kw)
      [] m.f = "calc_ijk" -> calc_ijk(m.a, kw)
      [] OTHER -> calc(kw)

\* init_k(): {"k": 3}
init_k == {<<"k", 3>>}

OkResponse(v) == [status |-> "ok", value |-> v, error |-> ""]
ErrorResponse(e) == [status |-> "error", value |-> 0, error |-> e]

\* ----------------------------------------------------- Executor.__new__
\* the values of backend: "other" stands for every string that is no backend
Backends == {"auto", "mpi", "slurm", "flux", "other"}

\* init_function: None or the function init_k
InitFunctions == {"None", "init_k"}

\* the calls Executor(...): `passed` holds the names of the keyword arguments
\* the caller gives, flux_installed and slurm_installed are the two module
\* variables set at import
Calls ==
    {c \in [passed : SUBSET {"block_allocation"},
            max_cores : {1, 2},
            cores_per_worker : {1, 2},
            threads_per_core : {1, 2},
            gpus_per_worker : {0, 1},
            oversubscribe : BOOLEAN,
            backend : Backends,
            block_allocation : BOOLEAN,
            init_function : InitFunctions,
            flux_installed : BOOLEAN,
            slurm_installed : BOOLEAN] :
        "block_allocation" \notin c.passed => ~c.block_allocation}

\* no call yet
NoCall == [none |-> TRUE]

\* what a call of Executor(...) gives: an exception, or an executor of class
\* cls made with max_workers and init_function
Raised(e) ==
    [raises |-> e, cls |-> "", max_workers |-> 0, init_function |-> "None"]
Returned(c, n, fn) ==
    [raises |-> "", cls |-> c, max_workers |-> n, init_function |-> fn]
NothingMade == Returned("", 0, "None")

\* block_allocation as the signature of __init__ advertises it
init_block_allocation_default == TRUE

\* block_allocation: bool = False in the signature of __new__
new_block_allocation_default == FALSE

\* the value __new__ sees for block_allocation
BlockAllocation(c) ==
    IF "block_allocation" \in c.passed THEN c.block_allocation
    ELSE new_block_allocation_default

\* int(max_cores / cores_per_worker)
max_workers(c) == c.max_cores \div c.cores_per_worker

\* the branch of the if/elif chain on backend, with Slurm tested before Flux
Branch_slurm_first(c) ==
    IF c.backend \notin {"auto", "mpi", "slurm", "flux"} THEN "invalid"
    ELSE IF c.backend = "slurm" \/ (c.backend = "auto" /\ c.slurm_installed)
    THEN "slurm"
    ELSE IF c.backend = "flux" \/ (c.backend = "auto" /\ c.flux_installed)
    THEN "flux"
    ELSE "mpi"

\* the branch of the if/elif chain on backend
Branch(c) ==
    IF c.backend \notin {"auto", "mpi", "slurm", "flux"} THEN "invalid"
    ELSE IF c.backend = "flux" \/ (c.backend = "auto" /\ c.flux_installed)
    THEN "flux"
    ELSE IF c.backend = "slurm" \/ (c.backend = "auto" /\ c.slurm_installed)
    THEN "slurm"
    ELSE "mpi"

\* __new__ after its first check
Select(c) ==
    LET block == BlockAllocation(c)
        br == Branch(c)
    IN IF br = "invalid" THEN Raised("ValueError")
       ELSE IF br = "flux"
       THEN IF c.oversubscribe THEN Raised("ValueError")
            ELSE IF block
            THEN Returned("PyFluxExecutor", max_workers(c), c.init_function)
            ELSE Returned("PyFluxStepExecutor", 0, "None")
       ELSE IF br = "slurm"
       THEN IF block
            THEN Returned("PySlurmExecutor", max_workers(c), c.init_function)
            ELSE Returned("PySlurmStepExecutor", 0, "None")
       ELSE IF c.threads_per_core # 1 THEN Raised("ValueError")
       ELSE IF c.gpus_per_worker # 0 THEN Raised("ValueError")
       ELSE IF block
       THEN Returned("PyMPIExecutor", max_workers(c), c.init_function)
       ELSE Returned("PyMPIStepExecutor", 0, "None")

\* __new__ without its first check
Executor_new_unchecked(c) == Select(c)

\* Executor.__new__: if not block_allocation and init_function is not None:
\* raise ValueError("")
Executor_new(c) ==
    IF ~BlockAllocation(c) /\ c.init_function # "None"
    THEN Raised("ValueError")
    ELSE Select(c)

\* the state after construction, with the entries q already on the queue
Start(q) ==
    /\ queue = q
    /\ futures = <<>>
    /\ pc = [s \in Slots |-> "get"]
    /\ task_dict = [s \in Slots |-> NoEntry]
    /\ f = [s \in Slots |-> 0]
    /\ exc = [s \in Slots |-> ""]
    /\ req = [s \in Slots |-> <<>>]
    /\ resp = [s \in Slots |-> <<>>]
    /\ alive = [s \in Slots |-> TRUE]
    /\ memory = [s \in Slots |-> {}]
    /\ sent = [s \in Slots |-> <<>>]
    /\ lateCancel = {}
    /\ closeQueued = FALSE
    /\ sweepPc = "idle"
    /\ mapPc = "idle"
    /\ mapItems = <<>>
    /\ mapFs = <<>>
    /\ mapOut = <<>>
    /\ mapDone = <<>>
    /\ deps = <<>>
    /\ count = <<>>
    /\ notified = {}
    /\ submitError = ""
    /\ call = NoCall
    /\ made = NothingMade
    /\ initSeen = [s \in Slots |-> FALSE]
    /\ lock = <<>>
    /\ reading = <<>>

\* a pool without init_function: the queue starts empty
Init == Start(<<>>)

\* a pool with init_function: one init entry for every slot
InitWithInitFunction == Start(Inits(NumSlots))

\* --------------------------------------------------------- execute_tasks
\* Get that takes the entry put last (a LIFO queue)
Get_lifo(s) ==
    /\ pc[s] = "get"
    /\ queue # <<>>
    /\ task_dict' = [task_dict EXCEPT ![s] = queue[Len(queue)]]
    /\ queue' = SubSeq(queue, 1, Len(queue) - 1)
    /\ pc' = [pc EXCEPT ![s] = "branch"]
    /\ UNCHANGED <<futures, f, exc, chanVars, sent, lateCancel, closeQueued,
                   sweepVars, mapVars, depVars, submitError, factoryVars,
                   initSeen, lockVars>>

\* Get that reads the first entry and leaves it on the queue
Get_peek(s) ==
    /\ pc[s] = "get"
    /\ queue # <<>>
    /\ task_dict' = [task_dict EXCEPT ![s] = Head(queue)]
    /\ pc' = [pc EXCEPT ![s] = "branch"]
    /\ UNCHANGED <<queue, futures, f, exc, chanVars, sent, lateCancel,
                   closeQueued, sweepVars, mapVars, depVars, submitError,
                   factoryVars, initSeen, lockVars>>

\* task_dict = future_queue.get()
Get(s) ==
    /\ pc[s] = "get"
    /\ queue # <<>>
    /\ task_dict' = [task_dict EXCEPT ![s] = Head(queue)]
    /\ queue' = Tail(queue)
    /\ pc' = [pc EXCEPT ![s] = "branch"]
    /\ UNCHANGED <<futures, f, exc, chanVars, sent, lateCancel, closeQueued,
                   sweepVars, mapVars, depVars, submitError, factoryVars,
                   initSeen, lockVars>>


\* "c" in task_dict.keys() and task_dict["c"] == "close"
IsClose(e) == "c" \in DOMAIN e /\ e.c = "close"

\* elif "f" in task_dict.keys() and "l" in task_dict.keys()
IsTask(e) == ~IsClose(e) /\ "f" \in DOMAIN e /\ "l" \in DOMAIN e

\* elif "f" in task_dict.keys() and "i" in task_dict.keys()
IsInit(e) == ~IsClose(e) /\ ~IsTask(e) /\ "f" \in DOMAIN e /\ "i" \in DOMAIN e

\* task_dict when the future is read and left in it (task_dict["l"])
PopL_keeps(e) == e

\* task_dict after task_dict.pop("l")
PopL(e) == [x \in DOMAIN e \ {"l"} |-> e[x]]

\* close branch: interface.shutdown(wait=True) sends close to the worker ...
Close(s) ==
    /\ pc[s] = "branch"
    /\ IsClose(task_dict[s])
    /\ req' = [req EXCEPT ![s] = Append(@, CloseEntry)]
    /\ pc' = [pc EXCEPT ![s] = "shutdown"]
    /\ UNCHANGED <<queue, futures, task_dict, f, exc, resp, alive, memory,
                   sent, lateCancel, closeQueued, sweepVars, mapVars, depVars,
                   submitError, factoryVars, initSeen, lockVars>>

\* shutdown(wait=False): break without waiting for the worker process
CloseDone_no_wait(s) ==
    /\ pc[s] = "shutdown"
    /\ pc' = [pc EXCEPT ![s] = "closed"]
    /\ UNCHANGED <<queue, futures, task_dict, f, exc, chanVars, sent,
                   lateCancel, closeQueued, sweepVars, mapVars, depVars,
                   submitError, factoryVars, initSeen, lockVars>>

\* ... and waits until the worker process has exited; then break
CloseDone(s) ==
    /\ pc[s] = "shutdown"
    /\ ~alive[s]
    /\ pc' = [pc EXCEPT ![s] = "closed"]
    /\ UNCHANGED <<queue, futures, task_dict, f, exc, chanVars, sent,
                   lateCancel, closeQueued, sweepVars, mapVars, depVars,
                   submitError, factoryVars, initSeen, lockVars>>

\* Mark without the test of the returned value: a cancelled task is sent too
Mark_ignores_cancel(s) ==
    /\ pc[s] = "branch"
    /\ IsTask(task_dict[s])
    /\ LET t == task_dict[s].l
           r == set_running_returns(futures[t])
       IN /\ f' = [f EXCEPT ![s] = t]
          /\ task_dict' = [task_dict EXCEPT ![s] = PopL(@)]
          /\ futures' = [futures EXCEPT ![t] = set_running_or_notify_cancel(@)]
          /\ pc' = [pc EXCEPT ![s] = IF r = "raise" THEN "raised" ELSE "send"]
          /\ exc' = [exc EXCEPT ![s] = IF r = "raise" THEN "RuntimeError" ELSE @]
    /\ UNCHANGED <<queue, chanVars, sent, lateCancel, closeQueued, sweepVars,
                   mapVars, depVars, submitError, factoryVars, initSeen,
                   lockVars>>

\* task branch: f = task_dict.pop("l"); if f.set_running_or_notify_cancel():
Mark(s) ==
    /\ pc[s] = "branch"
    /\ IsTask(task_dict[s])
    /\ LET t == task_dict[s].l
           r == set_running_returns(futures[t])
       IN /\ f' = [f EXCEPT ![s] = t]
          /\ task_dict' = [task_dict EXCEPT ![s] = PopL(@)]
          /\ futures' = [futures EXCEPT ![t] = set_running_or_notify_cancel(@)]
          /\ pc' = [pc EXCEPT ![s] = CASE r = "true" -> "send"
                                       [] r = "false" -> "get"
                                       [] OTHER -> "raised"]
          /\ exc' = [exc EXCEPT ![s] = IF r = "raise" THEN "RuntimeError" ELSE @]
    /\ UNCHANGED <<queue, chanVars, sent, lateCancel, closeQueued, sweepVars,
                   mapVars, depVars, submitError, factoryVars, initSeen,
                   lockVars>>

\* Send that does not wait for the reply (send_dict in place of
\* send_and_receive_dict)
Send_no_wait(s) ==
    /\ pc[s] = "send"
    /\ req' = [req EXCEPT ![s] = Append(@, task_dict[s])]
    /\ sent' = [sent EXCEPT ![s] = Append(@, f[s])]
    /\ pc' = [pc EXCEPT ![s] = "get"]
    /\ UNCHANGED <<queue, futures, task_dict, f, exc, resp, alive, memory,
                   lateCancel, closeQueued, sweepVars, mapVars, depVars,
                   submitError, factoryVars, initSeen, lockVars>>

\* interface.send_and_receive_dict(input_dict=task_dict): the request goes out
Send(s) ==
    /\ pc[s] = "send"
    /\ req' = [req EXCEPT ![s] = Append(@, task_dict[s])]
    /\ sent' = [sent EXCEPT ![s] = Append(@, f[s])]
    /\ pc' = [pc EXCEPT ![s] = "recv"]
    /\ UNCHANGED <<queue, futures, task_dict, f, exc, resp, alive, memory,
                   lateCancel, closeQueued, sweepVars, mapVars, depVars,
                   submitError, factoryVars, initSeen, lockVars>>

\* the futures map() submitted
MapFutures == {mapFs[i] : i \in 1..Len(mapFs)}

\* Recv that catches the worker's error, stores it on the future and goes on
Recv_swallows(s) ==
    /\ pc[s] = "recv"
    /\ resp[s] # <<>>
    /\ LET r == Head(resp[s])
           t == f[s]
       IN /\ resp' = [resp EXCEPT ![s] = Tail(@)]
          /\ pc' = [pc EXCEPT ![s] = "get"]
          /\ futures' = [futures EXCEPT ![t] =
                IF r.status = "error"
                THEN [@ EXCEPT !.state = "FINISHED", !.exception = r.error]
                ELSE set_result(@, r.value)]
          /\ mapDone' = IF r.status = "ok" /\ t \in MapFutures
                        THEN Append(mapDone, t) ELSE mapDone
    /\ UNCHANGED <<queue, task_dict, f, exc, req, alive, memory, sent,
                   lateCancel, closeQueued, sweepVars, mapPc, mapItems, mapFs,
                   mapOut, depVars, submitError, factoryVars, initSeen,
                   lockVars>>

\* Recv that sets the result on the running future created last, as a
\* variable f shared by the loops of all slots would
Recv_shared_f(s) ==
    /\ pc[s] = "recv"
    /\ resp[s] # <<>>
    /\ LET r == Head(resp[s])
           running == {u \in 1..Len(futures) : futures[u].state = "RUNNING"}
           t == CHOOSE u \in running : \A v \in running : v <= u
       IN /\ resp' = [resp EXCEPT ![s] = Tail(@)]
          /\ IF r.status = "error"
             THEN /\ pc' = [pc EXCEPT ![s] = "raised"]
                  /\ exc' = [exc EXCEPT ![s] = r.error]
                  /\ UNCHANGED futures
             ELSE /\ pc' = [pc EXCEPT ![s] = "get"]
                  /\ futures' = [futures EXCEPT ![t] = set_result(@, r.value)]
                  /\ UNCHANGED exc
          /\ mapDone' = IF r.status = "ok" /\ t \in MapFutures
                        THEN Append(mapDone, t) ELSE mapDone
    /\ UNCHANGED <<queue, task_dict, f, req, alive, memory, sent, lateCancel,
                   closeQueued, sweepVars, mapPc, mapItems, mapFs, mapOut,
                   depVars, submitError, factoryVars, initSeen, lockVars>>

\* send_and_receive_dict returns the worker's value, or re-raises its error;
\* f.set_result(value) is reached only when it returns
Recv(s) ==
    /\ pc[s] = "recv"
    /\ resp[s] # <<>>
    /\ LET r == Head(resp[s])
           t == f[s]
       IN /\ resp' = [resp EXCEPT ![s] = Tail(@)]
          /\ IF r.status = "error"
             THEN /\ pc' = [pc EXCEPT ![s] = "raised"]
                  /\ exc' = [exc EXCEPT ![s] = r.error]
                  /\ UNCHANGED futures
             ELSE IF set_result_raises(futures[t])
             THEN /\ pc' = [pc EXCEPT ![s] = "raised"]
                  /\ exc' = [exc EXCEPT ![s] = "InvalidStateError"]
                  /\ UNCHANGED futures
             ELSE /\ pc' = [pc EXCEPT ![s] = "get"]
                  /\ futures' = [futures EXCEPT ![t] = set_result(@, r.value)]
                  /\ UNCHANGED exc
          /\ mapDone' = IF r.status = "ok" /\ t \in MapFutures
                        THEN Append(mapDone, t) ELSE mapDone
    /\ UNCHANGED <<queue, task_dict, f, req, alive, memory, sent, lateCancel,
                   closeQueued, sweepVars, mapPc, mapItems, mapFs, mapOut,
                   depVars, submitError, factoryVars, initSeen, lockVars>>

\* init branch that sends nothing (pass)
SendInit_skips(s) ==
    /\ pc[s] = "branch"
    /\ IsInit(task_dict[s])
    /\ initSeen' = [initSeen EXCEPT ![s] = TRUE]
    /\ pc' = [pc EXCEPT ![s] = "get"]
    /\ UNCHANGED <<queue, futures, task_dict, f, exc, chanVars, sent,
                   lateCancel, closeQueued, sweepVars, mapVars, depVars,
                   submitError, factoryVars, lockVars>>

\* init branch: interface.send_dict(input_dict=task_dict), fire and forget
SendInit(s) ==
    /\ pc[s] = "branch"
    /\ IsInit(task_dict[s])
    /\ req' = [req EXCEPT ![s] = Append(@, task_dict[s])]
    /\ initSeen' = [initSeen EXCEPT ![s] = TRUE]
    /\ pc' = [pc EXCEPT ![s] = "get"]
    /\ UNCHANGED <<queue, futures, task_dict, f, exc, resp, alive, memory,
                   sent, lateCancel, closeQueued, sweepVars, mapVars, depVars,
                   submitError, factoryVars, lockVars>>

\* -------------------------------------------------------- worker process
\* loop {receive decoded call, execute, send back result or error marker};
\* exit on close; an init call stores its keyword values for later calls
Worker(s) ==
    /\ alive[s]
    /\ req[s] # <<>>
    /\ LET m == Head(req[s])
           kw == IF IsClose(m) \/ IsInit(m) THEN {} ELSE m.k \cup memory[s]
       IN /\ req' = [req EXCEPT ![s] = Tail(@)]
          /\ alive' = [alive EXCEPT ![s] = ~IsClose(m)]
          /\ memory' = [memory EXCEPT ![s] = IF IsInit(m) THEN init_k ELSE @]
          /\ resp' = [resp EXCEPT ![s] =
                IF IsClose(m) \/ IsInit(m) THEN @
                ELSE IF CallRaises(m, kw) THEN Append(@, ErrorResponse("TypeError"))
                ELSE Append(@, OkResponse(CallValue(m, kw)))]
    /\ UNCHANGED <<queue, futures, dispVars, sent, lateCancel, closeQueued,
                   sweepVars, mapVars, depVars, submitError, factoryVars,
                   initSeen, lockVars>>

\* ----------------------------------------------------------------- clients
\* submit that accepts a task after shutdown
Submit_after_shutdown(kw) ==
    /\ Len(futures) < MaxTasks
    /\ futures' = Append(futures, NewFuture)
    /\ queue' = Append(queue, TaskEntry(kw, Len(futures) + 1))
    /\ UNCHANGED <<dispVars, chanVars, sent, lateCancel, closeQueued,
                   sweepVars, mapVars, depVars, submitError, factoryVars,
                   initSeen, lockVars>>

\* submit(fn, **kw): a new pending future, its entry put on the queue; after
\* shutdown it fails with DispatchError and nothing is enqueued
Submit(kw) ==
    /\ IF closeQueued
       THEN /\ submitError' = "DispatchError"
            /\ UNCHANGED <<futures, queue>>
       ELSE /\ Len(futures) < MaxTasks
            /\ futures' = Append(futures, NewFuture)
            /\ queue' = Append(queue, TaskEntry(kw, Len(futures) + 1))
            /\ UNCHANGED submitError
    /\ UNCHANGED <<dispVars, chanVars, sent, lateCancel, closeQueued,
                   sweepVars, mapVars, depVars, factoryVars, initSeen,
                   lockVars>>

\* p.submit(calc, 2, j=4) on a pool that is not shut down
SubmitExample ==
    /\ ~closeQueued
    /\ Len(futures) < MaxTasks
    /\ futures' = Append(futures, NewFuture)
    /\ queue' = Append(queue, ExampleEntry(Len(futures) + 1))
    /\ UNCHANGED <<dispVars, chanVars, sent, lateCancel, closeQueued,
                   sweepVars, mapVars, depVars, submitError, factoryVars,
                   initSeen, lockVars>>

\* a submit of a client that does not submit after shutdown
SubmitOpen(kw) == ~closeQueued /\ Submit(kw)

\* the client calls cancel() on a future it holds
ClientCancel(t) ==
    /\ t \in 1..Len(futures)
    /\ futures' = [futures EXCEPT ![t] = cancel(@)]
    /\ lateCancel' = IF futures[t].state = "RUNNING" THEN lateCancel \cup {t}
                     ELSE lateCancel
    /\ UNCHANGED <<queue, dispVars, chanVars, sent, closeQueued, sweepVars,
                   mapVars, depVars, submitError, factoryVars, initSeen,
                   lockVars>>

\* shutdown: one close message for every slot
PutClose ==
    /\ ~closeQueued
    /\ closeQueued' = TRUE
    /\ queue' = queue \o Closes(NumSlots)
    /\ UNCHANGED <<futures, dispVars, chanVars, sent, lateCancel, sweepVars,
                   mapVars, depVars, submitError, factoryVars, initSeen,
                   lockVars>>

\* ---------------------------------------------------- cancel_items_in_queue
\* the sweep that drops the items and cancels nothing
cancel_items_in_queue_no_cancel ==
    /\ IF queue = <<>>
       THEN /\ sweepPc = "loop"
            /\ sweepPc' = "idle"
            /\ UNCHANGED <<queue, futures>>
       ELSE /\ sweepPc' = "loop"
            /\ queue' = Tail(queue)
            /\ UNCHANGED futures
    /\ UNCHANGED <<dispVars, chanVars, sent, lateCancel, closeQueued, mapVars,
                   depVars, submitError, factoryVars, initSeen, lockVars>>

\* the sweep that discards task entries only and puts every other item back
cancel_items_in_queue_keeps_control ==
    /\ IF queue = <<>>
       THEN /\ sweepPc = "loop"
            /\ sweepPc' = "idle"
            /\ UNCHANGED <<queue, futures>>
       ELSE /\ sweepPc' = "loop"
            /\ IF "l" \in DOMAIN Head(queue)
               THEN /\ queue' = Tail(queue)
                    /\ futures' = [futures EXCEPT ![Head(queue).l] = cancel(@)]
               ELSE /\ queue' = Append(Tail(queue), Head(queue))
                    /\ UNCHANGED futures
    /\ UNCHANGED <<dispVars, chanVars, sent, lateCancel, closeQueued, mapVars,
                   depVars, submitError, factoryVars, initSeen, lockVars>>

\* one round of the loop: item = que.get_nowait(), queue.Empty breaks;
\* if isinstance(item, dict) and "l" in item.keys(): item["l"].cancel()
cancel_items_in_queue ==
    /\ IF queue = <<>>
       THEN /\ sweepPc = "loop"
            /\ sweepPc' = "idle"
            /\ UNCHANGED <<queue, futures>>
       ELSE /\ sweepPc' = "loop"
            /\ queue' = Tail(queue)
            /\ IF "l" \in DOMAIN Head(queue)
               THEN futures' = [futures EXCEPT ![Head(queue).l] = cancel(@)]
               ELSE UNCHANGED futures
    /\ UNCHANGED <<dispVars, chanVars, sent, lateCancel, closeQueued, mapVars,
                   depVars, submitError, factoryVars, initSeen, lockVars>>

\* ---------------------------------------------------------------------- map
\* the entries for items[i..], the first of them paired with future t
RECURSIVE MapEntries(_, _, _)
MapEntries(items, i, t) ==
    IF i > Len(items) THEN <<>>
    ELSE <<TaskEntry({<<"i", items[i]>>}, t)>> \o MapEntries(items, i + 1, t + 1)

\* the item lists map() is called with: pairwise different items, so that a
\* result tells which item it belongs to
MapInputs ==
    {items \in UNION {[1..n -> 1..MaxMapLen] : n \in 1..MaxMapLen} :
        \A i, j \in 1..Len(items) : items[i] = items[j] => i = j}

\* map(calc, items): one submission for each item, in input order
MapSubmit(items) ==
    /\ mapPc = "idle"
    /\ ~closeQueued
    /\ Len(futures) + Len(items) <= MaxTasks
    /\ mapPc' = "iter"
    /\ mapItems' = items
    /\ mapFs' = [i \in 1..Len(items) |-> Len(futures) + i]
    /\ futures' = futures \o [i \in 1..Len(items) |-> NewFuture]
    /\ queue' = queue \o MapEntries(items, 1, Len(futures) + 1)
    /\ mapOut' = <<>>
    /\ UNCHANGED <<dispVars, chanVars, sent, lateCancel, closeQueued,
                   sweepVars, mapDone, depVars, submitError, factoryVars,
                   initSeen, lockVars>>

\* the result iterator: the next future's result() once it is terminal
MapCollect ==
    /\ mapPc = "iter"
    /\ IF Len(mapOut) = Len(mapFs)
       THEN mapPc' = "done" /\ UNCHANGED mapOut
       ELSE LET fut == futures[mapFs[Len(mapOut) + 1]]
            IN /\ fut.state \in TerminalStates
               /\ IF fut.state = "FINISHED"
                  THEN mapOut' = Append(mapOut, fut.result[1]) /\ UNCHANGED mapPc
                  ELSE mapPc' = "raised" /\ UNCHANGED mapOut
    /\ UNCHANGED <<queue, futures, dispVars, chanVars, sent, lateCancel,
                   closeQueued, sweepVars, mapItems, mapFs, mapDone, depVars,
                   submitError, factoryVars, initSeen, lockVars>>

\* ------------------------------------------------------ dependency resolver
\* the values add_function is submitted with: submit(add_function, 1,
\* parameter_2=2)
PlainArgs == <<1, 2>>

\* the dependency ended in error or cancellation
Failed(fut) ==
    fut.state \in CancelledStates \/ (fut.state = "FINISHED" /\ fut.exception # "")

\* the failure a failed dependency ended in
Failure(fut) ==
    IF fut.state \in CancelledStates THEN "CancelledError" ELSE fut.exception

\* DependencyError wraps the original error
DependencyError(e) == "DependencyError(" \o e \o ")"

\* the future after Future.set_exception(e); a terminal future is left alone
set_exception(fut, e) ==
    IF fut.state \in TerminalStates THEN fut
    ELSE [fut EXCEPT !.state = "FINISHED", !.exception = e]

\* argument i of task t once its dependencies are resolved
Substituted(t, i) ==
    IF deps[t][i] = 0 THEN PlainArgs[i] ELSE futures[deps[t][i]].result[1]

\* the arguments of task t that are futures
FutureArgs(t) == {i \in 1..2 : deps[t][i] # 0}

\* submit(add_function, p1, parameter_2=p2) where argument i is the future
\* d[i], or the plain value if d[i] = 0: without a future among the arguments
\* the task is dispatched at once, otherwise it waits for its callbacks.
\* The futures passed are those of the two submissions before: the last one
\* as parameter_2, the one before it as parameter_1
DepSubmit(d1, d2) ==
    /\ ~closeQueued
    /\ Len(futures) < MaxTasks
    /\ d1 \in {0, Len(futures) - 1} \cap 0..Len(futures)
    /\ d2 \in {0, Len(futures)}
    /\ LET t == Len(futures) + 1
           n == Cardinality({i \in 1..2 : <<d1, d2>>[i] # 0})
       IN /\ futures' = Append(futures, NewFuture)
          /\ deps' = Append(deps, <<d1, d2>>)
          /\ count' = Append(count, n)
          /\ queue' = IF n = 0
                      THEN Append(queue, AddEntry(PlainArgs[1], PlainArgs[2], t))
                      ELSE queue
    /\ UNCHANGED <<dispVars, chanVars, sent, lateCancel, closeQueued,
                   sweepVars, mapVars, notified, submitError, factoryVars,
                   initSeen, lockVars>>

\* the last callback dispatches the task although a dependency failed
DepCallback_ignores_failure(t, i) ==
    /\ t \in 1..Len(deps)
    /\ i \in FutureArgs(t)
    /\ <<t, i>> \notin notified
    /\ futures[deps[t][i]].state \in TerminalStates
    /\ notified' = notified \cup {<<t, i>>}
    /\ count' = [count EXCEPT ![t] = @ - 1]
    /\ LET v(j) == IF deps[t][j] = 0 THEN PlainArgs[j]
                   ELSE IF futures[deps[t][j]].result = <<>> THEN 0
                   ELSE futures[deps[t][j]].result[1]
       IN queue' = IF count[t] = 1
                   THEN Append(queue, AddEntry(v(1), v(2), t))
                   ELSE queue
    /\ UNCHANGED <<futures, dispVars, chanVars, sent, lateCancel, closeQueued,
                   sweepVars, mapVars, deps, submitError, factoryVars,
                   initSeen, lockVars>>

\* the completion callback registered on the dependency that is argument i
\* of task t: it runs once that future is terminal and decrements the count;
\* the last one substitutes the results and submits the task, or, if a
\* dependency failed, sets DependencyError on the task's future
DepCallback(t, i) ==
    /\ t \in 1..Len(deps)
    /\ i \in FutureArgs(t)
    /\ <<t, i>> \notin notified
    /\ futures[deps[t][i]].state \in TerminalStates
    /\ notified' = notified \cup {<<t, i>>}
    /\ count' = [count EXCEPT ![t] = @ - 1]
    /\ LET failed == {j \in FutureArgs(t) : Failed(futures[deps[t][j]])}
       IN IF count[t] # 1
          THEN UNCHANGED <<queue, futures>>
          ELSE IF failed # {}
          THEN /\ LET j == CHOOSE k \in failed : \A l \in failed : k <= l
                  IN futures' = [futures EXCEPT ![t] =
                        set_exception(@, DependencyError(
                            Failure(futures[deps[t][j]])))]
               /\ UNCHANGED queue
          ELSE /\ queue' = Append(queue,
                        AddEntry(Substituted(t, 1), Substituted(t, 2), t))
               /\ UNCHANGED futures
    /\ UNCHANGED <<dispVars, chanVars, sent, lateCancel, closeQueued,
                   sweepVars, mapVars, deps, submitError, factoryVars,
                   initSeen, lockVars>>

\* the callback of argument i of task t may start: its dependency is
\* terminal and it has neither run nor started
CbReady(t, i) ==
    /\ t \in 1..Len(deps)
    /\ i \in FutureArgs(t)
    /\ <<t, i>> \notin notified
    /\ <<t, i>> \notin DOMAIN reading
    /\ futures[deps[t][i]].state \in TerminalStates

\* the first step of the callback without the lock
CbRead_no_lock(t, i) ==
    /\ CbReady(t, i)
    /\ reading' = [c \in DOMAIN reading \cup {<<t, i>>} |->
                        IF c = <<t, i>> THEN count[t] ELSE reading[c]]
    /\ UNCHANGED <<queue, futures, dispVars, chanVars, sent, lateCancel,
                   closeQueued, sweepVars, mapVars, depVars, submitError,
                   factoryVars, initSeen, lock>>

\* the callback in steps, first step: it takes the lock of the
\* dependency-count table and reads the count of its task
CbRead(t, i) ==
    /\ CbReady(t, i)
    /\ lock = <<>>
    /\ lock' = <<t, i>>
    /\ reading' = [c \in DOMAIN reading \cup {<<t, i>>} |->
                        IF c = <<t, i>> THEN count[t] ELSE reading[c]]
    /\ UNCHANGED <<queue, futures, dispVars, chanVars, sent, lateCancel,
                   closeQueued, sweepVars, mapVars, depVars, submitError,
                   factoryVars, initSeen>>

\* second step: it writes the count it read, less one; if that is zero it
\* submits the task with the results substituted, or sets DependencyError
\* if a dependency failed; then it releases the lock
CbWrite(t, i) ==
    /\ <<t, i>> \in DOMAIN reading
    /\ LET n == reading[<<t, i>>] - 1
           failed == {j \in FutureArgs(t) : Failed(futures[deps[t][j]])}
       IN /\ count' = [count EXCEPT ![t] = n]
          /\ IF n # 0
             THEN UNCHANGED <<queue, futures>>
             ELSE IF failed # {}
             THEN /\ LET j == CHOOSE k \in failed : \A l \in failed : k <= l
                     IN futures' = [futures EXCEPT ![t] =
                           set_exception(@, DependencyError(
                               Failure(futures[deps[t][j]])))]
                  /\ UNCHANGED queue
             ELSE /\ queue' = Append(queue,
                           AddEntry(Substituted(t, 1), Substituted(t, 2), t))
                  /\ UNCHANGED futures
    /\ notified' = notified \cup {<<t, i>>}
    /\ reading' = [c \in DOMAIN reading \ {<<t, i>>} |-> reading[c]]
    /\ lock' = IF lock = <<t, i>> THEN <<>> ELSE lock
    /\ UNCHANGED <<dispVars, chanVars, sent, lateCancel, closeQueued,
                   sweepVars, mapVars, deps, submitError, factoryVars,
                   initSeen>>

\* ------------------------------------------------------------- Executor(...)
\* the client calls Executor(...) with the arguments c
Construct(c) ==
    /\ call = NoCall
    /\ call' = c
    /\ made' = Executor_new(c)
    /\ UNCHANGED <<queue, futures, dispVars, chanVars, sent, lateCancel,
                   closeQueued, sweepVars, mapVars, depVars, submitError,
                   initSeen, lockVars>>

\* ------------------------------------------------------------ specification
Next ==
    \/ \E s \in Slots : Get(s)
    \/ \E s \in Slots : Close(s)
    \/ \E s \in Slots : CloseDone(s)
    \/ \E s \in Slots : Mark(s)
    \/ \E s \in Slots : Send(s)
    \/ \E s \in Slots : Recv(s)
    \/ \E s \in Slots : Worker(s)
    \/ \E kw \in KwChoices : SubmitOpen(kw)
    \/ \E t \in 1..MaxTasks : ClientCancel(t)
    \/ PutClose
    \/ cancel_items_in_queue

Spec == Init /\ [][Next]_vars

\* shutdown(cancel_futures=True) sweeps before it puts the close messages
SweepBeforeClose == ~closeQueued /\ cancel_items_in_queue

\* the pool whose only sweep is the one of shutdown
LiveNext ==
    \/ \E s \in Slots : Get(s)
    \/ \E s \in Slots : Close(s)
    \/ \E s \in Slots : CloseDone(s)
    \/ \E s \in Slots : Mark(s)
    \/ \E s \in Slots : Send(s)
    \/ \E s \in Slots : Recv(s)
    \/ \E s \in Slots : Worker(s)
    \/ \E kw \in KwChoices : SubmitOpen(kw)
    \/ \E t \in 1..MaxTasks : ClientCancel(t)
    \/ PutClose
    \/ SweepBeforeClose

\* every loop and every worker that can take a step eventually takes it
Fairness ==
    \A s \in Slots :
        /\ WF_vars(Get(s))
        /\ WF_vars(Close(s))
        /\ WF_vars(CloseDone(s))
        /\ WF_vars(Mark(s))
        /\ WF_vars(Send(s))
        /\ WF_vars(Recv(s))
        /\ WF_vars(Worker(s))

LiveSpec == Init /\ [][LiveNext]_vars /\ Fairness

\* the pool whose clients go on submitting after shutdown
ShutdownNext ==
    \/ \E s \in Slots : Get(s)
    \/ \E s \in Slots : Close(s)
    \/ \E s \in Slots : CloseDone(s)
    \/ \E s \in Slots : Mark(s)
    \/ \E s \in Slots : Send(s)
    \/ \E s \in Slots : Recv(s)
    \/ \E s \in Slots : Worker(s)
    \/ \E kw \in KwChoices : Submit(kw)
    \/ \E t \in 1..MaxTasks : ClientCancel(t)
    \/ PutClose
    \/ SweepBeforeClose

ShutdownSpec == Init /\ [][ShutdownNext]_vars

\* a pool with init_function, given the tasks of the docstring example
InitNext ==
    \/ \E s \in Slots : Get(s)
    \/ \E s \in Slots : Close(s)
    \/ \E s \in Slots : CloseDone(s)
    \/ \E s \in Slots : Mark(s)
    \/ \E s \in Slots : Send(s)
    \/ \E s \in Slots : Recv(s)
    \/ \E s \in Slots : SendInit(s)
    \/ \E s \in Slots : Worker(s)
    \/ SubmitExample
    \/ \E t \in 1..MaxTasks : ClientCancel(t)
    \/ PutClose
    \/ cancel_items_in_queue

InitSpec == InitWithInitFunction /\ [][InitNext]_vars

\* the pool driven by one map() call
MapNext ==
    \/ \E s \in Slots : Get(s)
    \/ \E s \in Slots : Close(s)
    \/ \E s \in Slots : CloseDone(s)
    \/ \E s \in Slots : Mark(s)
    \/ \E s \in Slots : Send(s)
    \/ \E s \in Slots : Recv(s)
    \/ \E s \in Slots : Worker(s)
    \/ \E t \in 1..MaxTasks : ClientCancel(t)
    \/ PutClose
    \/ \E items \in MapInputs : MapSubmit(items)
    \/ MapCollect

MapSpec == Init /\ [][MapNext]_vars

\* the open pool behind the dependency resolver
DepNext ==
    \/ \E s \in Slots : Get(s)
    \/ \E s \in Slots : Mark(s)
    \/ \E s \in Slots : Send(s)
    \/ \E s \in Slots : Recv(s)
    \/ \E s \in Slots : Worker(s)
    \/ \E t \in 1..MaxTasks : ClientCancel(t)
    \/ \E d1, d2 \in 0..MaxTasks : DepSubmit(d1, d2)
    \/ \E t \in 1..MaxTasks : \E i \in 1..2 : DepCallback(t, i)

DepSpec == Init /\ [][DepNext]_vars

\* the open pool behind the dependency resolver, the callbacks run in
\* steps by the threads that complete the dependencies
RaceNext ==
    \/ \E s \in Slots : Get(s)
    \/ \E s \in Slots : Mark(s)
    \/ \E s \in Slots : Send(s)
    \/ \E s \in Slots : Recv(s)
    \/ \E s \in Slots : Worker(s)
    \/ \E t \in 1..MaxTasks : ClientCancel(t)
    \/ \E d1, d2 \in 0..MaxTasks : DepSubmit(d1, d2)
    \/ \E t \in 1..MaxTasks : \E i \in 1..2 : CbRead(t, i)
    \/ \E t \in 1..MaxTasks : \E i \in 1..2 : CbWrite(t, i)

RaceSpec == Init /\ [][RaceNext]_vars

\* the calls of Executor(...)
FactoryNext == \E c \in Calls : Construct(c)

FactorySpec == Init /\ [][FactoryNext]_vars

\* ------------------------------------------------------------------ claims
Range(q) == {q[i] : i \in 1..Len(q)}

\* the futures whose call some slot has sent to its worker
AllSent == UNION {Range(sent[s]) : s \in Slots}

Created == 1..Len(futures)

\* C1: a future cancelled before the dispatcher marked it running is never
\* sent to a worker: no cancelled future is in the log of sent calls, and no
\* loop stands before or inside send_and_receive with a cancelled future.
C1_CancelledNeverSent ==
    /\ \A t \in Created : futures[t].state \in CancelledStates => t \notin AllSent
    /\ \A s \in Slots : pc[s] \in {"send", "recv"}
                            => futures[f[s]].state \notin CancelledStates

\* a loop dequeued an entry whose future was cancelled and dropped it unsent
C1_Witness ==
    \E s \in Slots :
        /\ pc[s] = "get"
        /\ f[s] # 0
        /\ futures[f[s]].state = "CANCELLED_AND_NOTIFIED"
        /\ f[s] \notin AllSent

\* C2: when the worker reported that the callable raised, the error is
\* recorded on the task's future, which is then in the terminal error state.
C2_ErrorRecorded ==
    \A s \in Slots :
        (pc[s] = "raised" /\ exc[s] = "TypeError")
            => /\ futures[f[s]].state = "FINISHED"
               /\ futures[f[s]].exception = "TypeError"

\* C3: when the response execute_tasks reads is the worker's report that the
\* callable raised, execute_tasks ends by raising that exception.
C3_ReRaises ==
    [][\A s \in Slots :
          (pc[s] = "recv" /\ resp[s] # <<>> /\ resp'[s] # resp[s]
              /\ Head(resp[s]).status = "error")
          => (pc'[s] = "raised" /\ exc'[s] = Head(resp[s]).error)]_vars

\* execute_tasks raised the TypeError of its task with the close message
\* still queued behind it
C3_Witness ==
    \E s \in Slots :
        /\ pc[s] = "raised"
        /\ exc[s] = "TypeError"
        /\ queue # <<>>
        /\ IsClose(Head(queue))

\* the calls slot s has sent whose reply it has not read
InFlight(s) ==
    Cardinality({i \in 1..Len(req[s]) : "k" \in DOMAIN req[s][i]}) + Len(resp[s])

\* C4: every slot has at most one call in flight, and at most NumSlots
\* futures are running.
C4_OneInFlight ==
    /\ \A s \in Slots : InFlight(s) <= 1
    /\ Cardinality({t \in Created : futures[t].state = "RUNNING"}) <= NumSlots

\* every slot has a call in flight while a further task waits in the queue
C4_Witness ==
    /\ \A s \in Slots : InFlight(s) = 1
    /\ \E i \in 1..Len(queue) : IsTask(queue[i])

\* C5: once the close messages follow the submissions, every future
\* eventually is terminal and every loop eventually has ended.
C5_AllTerminate ==
    closeQueued ~> (/\ \A t \in Created : futures[t].state \in TerminalStates
                    /\ \A s \in Slots : pc[s] \in {"closed", "raised"})

\* the state of a future in the words of the data model
St(fut) ==
    CASE fut.state = "PENDING" -> "pending"
      [] fut.state = "RUNNING" -> "running"
      [] fut.state \in CancelledStates -> "cancelled"
      [] fut.state = "FINISHED" /\ fut.exception = "" -> "done"
      [] OTHER -> "error"

\* the moves pending -> running -> {done | error | cancelled}, pending -> cancelled
Forward(a, b) ==
    \/ a = b
    \/ a = "pending" /\ b \in {"running", "cancelled"}
    \/ a = "running" /\ b \in {"done", "error", "cancelled"}

\* C6: in every step every future stays in its state or moves forward:
\* pending -> running -> {done | error | cancelled} or pending -> cancelled.
C6_Monotone ==
    [][\A t \in Created : Forward(St(futures[t]), St(futures'[t]))]_vars

\* one future is done, another was cancelled and notified by the dispatcher
C6_Witness ==
    \E t, u \in Created :
        /\ St(futures[t]) = "done"
        /\ futures[u].state = "CANCELLED_AND_NOTIFIED"

\* slot s reads an ok response in this step
ReadsOk(s) ==
    /\ pc[s] = "recv"
    /\ resp[s] # <<>>
    /\ Head(resp[s]).status = "ok"
    /\ resp'[s] # resp[s]

\* C7: a future the client cancels while it is running is never cancelled,
\* the loop that holds it stays in send_and_receive until the reply, and the
\* value the worker replies becomes the result of the finished future.
C7_LateCancelNoEffect ==
    [][/\ \A t \in lateCancel' : futures'[t].state \in {"RUNNING", "FINISHED"}
       /\ \A s \in Slots :
            (f'[s] \in lateCancel' /\ futures'[f'[s]].state = "RUNNING"
                /\ pc'[s] # "raised") => pc'[s] \in {"send", "recv"}
       /\ \A s \in Slots :
            (f[s] \in lateCancel /\ ReadsOk(s))
                => /\ futures'[f[s]].state = "FINISHED"
                   /\ futures'[f[s]].result = <<Head(resp[s]).value>>]_vars

\* the loop of slot s holds future t, marked running, and its call returns
HoldsOk(s, t) ==
    /\ f[s] = t
    /\ pc[s] \in {"send", "recv"}
    /\ ~calc_raises(task_dict[s].k \cup memory[s])

\* C7, under fair scheduling: a future cancelled while it is running, whose
\* call returns a value, eventually is finished with that value.
C7_Completes ==
    \A s \in Slots : \A t \in 1..MaxTasks :
        (t \in lateCancel /\ HoldsOk(s, t))
            ~> (/\ t \in Created
                /\ futures[t].state = "FINISHED"
                /\ futures[t].result = <<4>>)

\* a future cancelled while running has finished with the value of calc(i=2)
C7_Witness ==
    \E t \in lateCancel :
        /\ t \in AllSent
        /\ futures[t].state = "FINISHED"
        /\ futures[t].result = <<4>>

\* q is strictly increasing
Increasing(q) == \A i, j \in 1..Len(q) : i < j => q[i] < q[j]

\* C8: every slot sends its calls in the order the tasks were enqueued
\* (futures are numbered in the order of their submission).
C8_Fifo == \A s \in Slots : Increasing(sent[s])

\* one slot has sent three tasks, one after the other
C8_Witness == \E s \in Slots : Len(sent[s]) = 3

\* the future of the entry the loop of slot s holds (0: none)
Held(s) ==
    IF pc[s] = "branch" /\ IsTask(task_dict[s]) THEN task_dict[s].l
    ELSE IF pc[s] \in {"send", "recv"} THEN f[s]
    ELSE 0

\* the futures of the task entries on the queue
Queued == {queue[i].l : i \in {j \in 1..Len(queue) : IsTask(queue[j])}}

\* C9: no task is sent twice, by one slot or by two; an entry some loop
\* holds or has sent is off the queue, and no two loops hold the same entry.
C9_AtMostOnce ==
    /\ \A s \in Slots : \A i, j \in 1..Len(sent[s]) :
          sent[s][i] = sent[s][j] => i = j
    /\ \A s, r \in Slots : s # r => Range(sent[s]) \cap Range(sent[r]) = {}
    /\ \A s, r \in Slots : (s # r /\ Held(s) # 0) => Held(s) # Held(r)
    /\ \A s \in Slots : Held(s) \notin Queued
    /\ AllSent \cap Queued = {}

\* both slots have sent calls, three in all, while sharing one queue
C9_Witness ==
    /\ \A s \in Slots : sent[s] # <<>>
    /\ Cardinality(AllSent) = 3

\* C10: the results map() has yielded are those of the first items, in the
\* order of the items, and when the iterator is exhausted none is missing.
C10_MapInputOrder ==
    /\ Len(mapOut) <= Len(mapItems)
    /\ \A i \in 1..Len(mapOut) : mapOut[i] = mapItems[i] * mapItems[i]
    /\ mapPc = "done" => Len(mapOut) = Len(mapItems)

\* the second item got its result before the first, and map() yielded both
\* results in the order of the items
C10_Witness ==
    /\ mapPc = "done"
    /\ Len(mapFs) = 2
    /\ mapDone = <<mapFs[2], mapFs[1]>>
    /\ mapOut = <<mapItems[1] * mapItems[1], mapItems[2] * mapItems[2]>>

\* the futures of the entries some loop holds
AllHeld == {Held(s) : s \in Slots} \ {0}

\* task t has been handed to the pool: its entry is queued, held or sent
Dispatched(t) == t \in Queued \cup AllHeld \cup AllSent

\* the value of task t when every dependency returns its value
RECURSIVE Expected(_)
Expected(t) ==
    LET arg(i) == IF deps[t][i] = 0 THEN PlainArgs[i] ELSE Expected(deps[t][i])
    IN arg(1) + arg(2)

\* the entries of task t on the queue, held by a loop or on the way to a worker
EntriesOf(t) ==
    {PopL(queue[i]) : i \in {j \in 1..Len(queue) :
                                IsTask(queue[j]) /\ queue[j].l = t}}
    \cup {PopL(task_dict[s]) : s \in {r \in Slots : Held(r) = t}}

\* C11: a task submitted with a future among its arguments is not handed to
\* the pool while that future is unresolved; every entry of the task carries
\* the dependency's result in the argument's place; once the last dependency
\* is done the task is handed to the pool, and the result it finishes with
\* is add_function applied to the resolved values.
C11_DispatchedWhenResolved ==
    \A t \in Created :
        /\ (\E i \in FutureArgs(t) :
                futures[deps[t][i]].state \notin TerminalStates)
            => ~Dispatched(t)
        /\ \A e \in EntriesOf(t) :
            /\ \A i \in FutureArgs(t) : St(futures[deps[t][i]]) = "done"
            /\ e.a = <<Substituted(t, 1)>>
            /\ e.k = {<<"parameter_2", Substituted(t, 2)>>}
        /\ (count[t] = 0 /\ \A i \in FutureArgs(t) :
                St(futures[deps[t][i]]) = "done")
            => (Dispatched(t) \/ futures[t].state \in CancelledStates)
        /\ St(futures[t]) = "done" => futures[t].result = <<Expected(t)>>

\* add_function(1, parameter_2=2) finished with 3, and the task submitted
\* with that future as parameter_2 was sent and finished with 4
C11_Witness ==
    \E t, d \in Created :
        /\ deps[d] = <<0, 0>>
        /\ deps[t] = <<0, d>>
        /\ futures[d].result = <<3>>
        /\ t \in AllSent
        /\ futures[t].result = <<4>>

\* C12: a task one of whose dependencies ended in error or cancellation is
\* never handed to the pool, and once its last callback has run its future
\* has ended in DependencyError wrapping the failure of such a dependency
\* (or was cancelled by its client while it waited).
C12_FailedDependency ==
    \A t \in Created :
        LET failed == {i \in FutureArgs(t) : Failed(futures[deps[t][i]])}
        IN failed # {} =>
            /\ ~Dispatched(t)
            /\ count[t] = 0 =>
                \/ futures[t].state \in CancelledStates
                \/ /\ futures[t].state = "FINISHED"
                   /\ futures[t].exception \in
                        {DependencyError(Failure(futures[deps[t][i]])) :
                            i \in failed}

\* a dependency was cancelled, the task that waited for it ended in
\* DependencyError without being sent, and so did the task that waited for
\* that one
C12_Witness ==
    \E d, t, u \in Created :
        /\ futures[d].state \in CancelledStates
        /\ d \in Range(deps[t])
        /\ futures[t].exception = "DependencyError(CancelledError)"
        /\ t \in Range(deps[u])
        /\ futures[u].exception =
                "DependencyError(DependencyError(CancelledError))"
        /\ ~Dispatched(t) /\ ~Dispatched(u)

\* C13: a loop that dequeued the close message has sent close to its worker
\* and ends only when the worker process has exited: no ended loop has a
\* living worker or an unread message, so once every loop has ended through
\* the close branch no worker process of any slot remains.
C13_ShutdownBeforeBreak ==
    /\ \A s \in Slots :
        pc[s] = "closed" => (IsClose(task_dict[s]) /\ ~alive[s] /\ req[s] = <<>>)
    /\ \A s \in Slots :
        pc[s] = "shutdown" => (alive[s] => CloseEntry \in Range(req[s]))

\* every loop ended through the close branch after tasks have been run, and
\* no worker process remains
C13_Witness ==
    /\ \A s \in Slots : pc[s] = "closed" /\ ~alive[s]
    /\ AllSent # {}

\* C14: a submit after shutdown fails with DispatchError and enqueues
\* nothing: no task entry is queued behind a close message, submit raises
\* DispatchError only after shutdown, and once every loop has ended through
\* the close branch no future is left pending.
C14_NoSubmitAfterShutdown ==
    /\ \A i, j \in 1..Len(queue) :
        (i < j /\ IsClose(queue[i])) => ~IsTask(queue[j])
    /\ submitError # "" => (submitError = "DispatchError" /\ closeQueued)
    /\ (\A s \in Slots : pc[s] = "closed")
        => \A t \in Created : futures[t].state # "PENDING"

\* a submit after shutdown was refused, every loop has ended, and the tasks
\* accepted before the shutdown are finished
C14_Witness ==
    /\ submitError = "DispatchError"
    /\ \A s \in Slots : pc[s] = "closed"
    /\ queue = <<>>
    /\ Len(futures) = 2
    /\ \A t \in Created : futures[t].state = "FINISHED"

\* the classes of the block-allocation executors
BlockExecutors == {"PyFluxExecutor", "PySlurmExecutor", "PyMPIExecutor"}

\* C15: a call of Executor with an init_function while block allocation is
\* off raises ValueError and makes no executor, whatever the backend, the
\* installed resource managers and the other options are.
C15_InitFunctionNeedsBlock ==
    (call # NoCall /\ call.init_function # "None" /\ ~BlockAllocation(call))
        => made = Raised("ValueError")

\* Executor(backend="mpi", block_allocation=False, init_function=init_k), a
\* call whose other options the MPI backend accepts, raised ValueError
C15_Witness ==
    /\ call # NoCall
    /\ call.passed = {"block_allocation"}
    /\ ~call.block_allocation
    /\ call.init_function = "init_k"
    /\ call.backend = "mpi"
    /\ call.threads_per_core = 1
    /\ call.gpus_per_worker = 0
    /\ made = Raised("ValueError")

\* the call passes every check of the options of the backend it selects
OptionsAccepted(c) ==
    /\ Branch(c) # "invalid"
    /\ Branch(c) = "flux" => ~c.oversubscribe
    /\ Branch(c) = "mpi" => (c.threads_per_core = 1 /\ c.gpus_per_worker = 0)

\* C16: a call of Executor with an init_function that does not pass
\* block_allocation, as in the example of the class docstring, returns a
\* block-allocation executor made with that init_function.
C16_DocstringExample ==
    (call # NoCall /\ call.init_function # "None"
        /\ "block_allocation" \notin call.passed /\ OptionsAccepted(call))
        => /\ made.raises = ""
           /\ made.cls \in BlockExecutors
           /\ made.init_function = call.init_function
           /\ made = Executor_new(
                [call EXCEPT !.passed = {"block_allocation"},
                             !.block_allocation = init_block_allocation_default])

\* the executor class the claim names for a branch and block_allocation
ClassOf(br, block) ==
    CASE br = "flux" -> IF block THEN "PyFluxExecutor" ELSE "PyFluxStepExecutor"
      [] br = "slurm" -> IF block THEN "PySlurmExecutor" ELSE "PySlurmStepExecutor"
      [] br = "mpi" -> IF block THEN "PyMPIExecutor" ELSE "PyMPIStepExecutor"

\* the backend the claim names for (backend, flux available, slurm available)
Claimed(backend, flux, slurm) ==
    IF backend \notin {"auto", "mpi", "slurm", "flux"} THEN "invalid"
    ELSE IF backend = "flux" \/ (backend = "auto" /\ flux) THEN "flux"
    ELSE IF backend = "slurm" \/ (backend = "auto" /\ slurm) THEN "slurm"
    ELSE "mpi"

ExampleValue == <<2, 4, 3>>

\* C18: on a pool with the init_function init_k, every call a slot sends
\* after it handled its init entry is executed with k = 3 merged into its
\* keyword arguments: the worker's reply is the value of calc(2, j=4, k=3),
\* no such call raises the TypeError of a missing k, and every finished
\* future of that slot holds that value, however many calls the slot sent.
C18_InitMerged ==
    \A s \in Slots :
        initSeen[s] =>
            /\ \A i \in 1..Len(resp[s]) : resp[s][i] = OkResponse(ExampleValue)
            /\ pc[s] # "raised"
            /\ \A t \in Range(sent[s]) :
                futures[t].state = "FINISHED"
                    => futures[t].result = <<ExampleValue>>

\* one slot handled its init entry and then ran three tasks, one after the
\* other, each of them finished with [2, 4, 3]
C18_Witness ==
    \E s \in Slots :
        /\ initSeen[s]
        /\ Len(sent[s]) = 3
        /\ \A t \in Range(sent[s]) :
            /\ futures[t].state = "FINISHED"
            /\ futures[t].result = <<ExampleValue>>

\* C19: when the sweep returns the queue is empty and every future still
\* pending is one whose entry a dispatcher loop had dequeued before: the
\* futures of all entries the sweep removed are cancelled; and no future in
\* the state the sweep leaves it in has been sent.
C19_SweepCancelsQueued ==
    [][/\ (sweepPc = "loop" /\ sweepPc' = "idle")
            => /\ queue' = <<>>
               /\ \A t \in Created' :
                    futures'[t].state = "PENDING" => t \in AllHeld'
       /\ \A t \in Created' :
            futures'[t].state = "CANCELLED" => t \notin AllSent']_vars

\* the sweep has returned: it removed and cancelled the entries of two
\* futures, after a loop had dequeued and sent an earlier task
C19_Witness ==
    /\ sweepPc = "idle"
    /\ queue = <<>>
    /\ \E t, u \in Created :
        /\ t # u
        /\ \A v \in {t, u} :
            /\ futures[v].state = "CANCELLED"
            /\ v \notin AllHeld \cup AllSent
    /\ AllSent # {}

\* C20: no message sent to a worker carries the future handle: the loop
\* takes it out of the entry before send_and_receive and keeps it locally.
C20_HandleNeverSent ==
    /\ \A s \in Slots : \A i \in 1..Len(req[s]) : "l" \notin DOMAIN req[s][i]
    /\ \A s \in Slots :
        pc[s] \in {"send", "recv"}
            => ("l" \notin DOMAIN task_dict[s] /\ f[s] \in Created)

\* the call of an entry that carried a future is on its way to the worker,
\* function, arguments and keyword arguments only, the future kept by the loop
C20_Witness ==
    \E s \in Slots :
        /\ pc[s] = "recv"
        /\ req[s] # <<>>
        /\ DOMAIN Head(req[s]) = {"f", "a", "k"}
        /\ futures[f[s]].state = "RUNNING"

\* the times task t is found on its way through the pool: as an entry on the
\* queue, in the hands of a loop that has not sent it, or in the logs of
\* sent calls
TimesSubmitted(t) ==
    Cardinality({i \in 1..Len(queue) : IsTask(queue[i]) /\ queue[i].l = t})
    + Cardinality({s \in Slots : pc[s] \in {"branch", "send"} /\ Held(s) = t})
    + Cardinality({p \in Slots \X (1..MaxTasks) :
                        p[2] <= Len(sent[p[1]]) /\ sent[p[1]][p[2]] = t})

\* the callbacks of task t that have not finished
Outstanding(t) == {i \in FutureArgs(t) : <<t, i>> \notin notified}

\* C21: however the callbacks of the dependencies of a task interleave, the
\* count of the task is the number of its callbacks that have not finished
\* (no decrement is lost), the task is on its way through the pool at most
\* once and only when all its dependencies are done and the count is zero,
\* and once all callbacks have finished with every dependency done it has
\* been submitted (or its client cancelled it).
C21_CountedOnce ==
    \A t \in Created :
        /\ count[t] = Cardinality(Outstanding(t))
        /\ TimesSubmitted(t) <= 1
        /\ TimesSubmitted(t) = 1 =>
            /\ count[t] = 0
            /\ \A i \in FutureArgs(t) : St(futures[deps[t][i]]) = "done"
        /\ (Outstanding(t) = {} /\ \A i \in FutureArgs(t) :
                St(futures[deps[t][i]]) = "done")
            => (TimesSubmitted(t) = 1 \/ futures[t].state \in CancelledStates)

\* two dependencies of one task are done, sent by different slots; the
\* callback of one holds the lock with the count at 2 while the callback of
\* the other is ready to run
C21_Witness ==
    \E t \in Created :
        /\ deps[t][1] # 0 /\ deps[t][2] # 0 /\ deps[t][1] # deps[t][2]
        /\ \E s, r \in Slots :
            /\ s # r
            /\ deps[t][1] \in Range(sent[s])
            /\ deps[t][2] \in Range(sent[r])
        /\ count[t] = 2
        /\ \E i, j \in 1..2 :
            /\ lock = <<t, i>>
            /\ CbReady(t, j)

\* the close message meant for the loop of slot s is gone: shutdown has put
\* the close messages, none is left on the queue, and the loop neither holds
\* one nor has acted on one, its worker still running
Stranded(s) ==
    /\ closeQueued
    /\ \A i \in 1..Len(queue) : ~IsClose(queue[i])
    /\ pc[s] \notin {"shutdown", "closed"}
    /\ ~(pc[s] = "branch" /\ IsClose(task_dict[s]))
    /\ alive[s]
    /\ \A i \in 1..Len(req[s]) : ~IsClose(req[s][i])

\* a step of the sweep that finds an item: the queue changes and no loop,
\* submit or shutdown has moved
SweepTakes ==
    /\ queue' # queue
    /\ pc' = pc
    /\ closeQueued' = closeQueued
    /\ Len(futures') = Len(futures)

\* C22: the sweep removes the item at the head of the queue whatever its
\* kind (task, init or close) and puts nothing back; a loop terminates only
\* on a close message it has dequeued itself; and a loop whose close message
\* was removed stays unterminated, its worker running, since shutdown puts
\* the close messages only once.
C22_SweepDiscardsAll ==
    [][/\ SweepTakes => queue' = Tail(queue)
       /\ \A s \in Slots :
            /\ pc[s] \in {"shutdown", "closed"} => IsClose(task_dict[s])
            /\ Stranded(s) => Stranded(s)']_vars

\* the sweep has returned after shutdown on an empty queue: it removed the
\* init entries and the close messages before any loop took one, so every
\* loop waits on the queue, uninitialised, with its worker running
C22_Witness ==
    /\ sweepPc = "idle"
    /\ closeQueued
    /\ queue = <<>>
    /\ \A s \in Slots :
        /\ Stranded(s)
        /\ pc[s] = "get"
        /\ ~initSeen[s]
        /\ req[s] = <<>>

====
